---- MODULE Spec2Model ----
(***************************************************************************)
(* Model of the query-answering service: the Flask handler query() of      *)
(* app.py and the helpers search_articles, fetch_article_content,          *)
(* concatenate_content, generate_answer and LLMManager.get_instance of     *)
(* utils.py.                                                               *)
(*                                                                         *)
(* A request is handled by one worker thread.  Each action is the code a   *)
(* worker runs between two points at which another thread can be           *)
(* scheduled: a blocking network call, or an access to the one shared      *)
(* object, the class attribute LLMManager._instance.                       *)
(***************************************************************************)
EXTENDS Naturals, Sequences, FiniteSets

\* ------------------------------------------------------------------ bounds

\* Requests accepted over the life of the process.
MaxRequests == 3

\* Longest 'organic' list the search provider returns.
MaxOrganic == 4

\* utils.py line 59: urls[:3]
MaxUrls == 3

\* ------------------------------------------------------------ Python values

\* The value None and a list value, as search_articles can return either.
PyNone == [type |-> "NoneType", items |-> <<>>]

PyList(s) == [type |-> "list", items |-> s]

\* A test for None in place of the truthiness test (`is not None`).
PyTruthy_NotNone(v) == v.type = "list"

\* Python truthiness of None and of a list.
PyTruthy(v) == v.type = "list" /\ Len(v.items) > 0

\* What a call gives its caller: a returned value, or a raised exception.
Returned(v) == [raised |-> FALSE, value |-> v, exc |-> ""]

Raised(e) == [raised |-> TRUE, value |-> "", exc |-> e]

\* s[:n]
Take(s, n) == SubSeq(s, 1, IF Len(s) < n THEN Len(s) ELSE n)

\* ----------------------------------------------------- request bodies (JSON)

\* The parsed JSON body request.get_json() returns: null, an object (a dict
\* from keys to string values) or an array (a list of strings).
JsonNull == [json |-> "null", fields |-> <<>>, items |-> <<>>]

JsonObject(f) == [json |-> "object", fields |-> f, items |-> <<>>]

JsonArray(s) == [json |-> "array", fields |-> <<>>, items |-> s]

BodyKeys == {"query", "other"}

BodyValues == {"", "q"}

Bodies ==
    {JsonNull}
    \cup {JsonObject(f) : f \in UNION {[K -> BodyValues] : K \in SUBSET BodyKeys}}
    \cup {JsonArray(<<>>), JsonArray(<<"query">>), JsonArray(<<"other">>)}

\* app.py line 72: `not data`
DataFalsy(d) ==
    \/ d.json = "null"
    \/ d.json = "object" /\ DOMAIN d.fields = {}
    \/ d.json = "array" /\ Len(d.items) = 0

\* app.py line 72: `'query' in data` (key of a dict, element of a list)
HasQuery(d) ==
    \/ d.json = "object" /\ "query" \in DOMAIN d.fields
    \/ d.json = "array" /\ \E i \in 1..Len(d.items) : d.items[i] = "query"

\* app.py line 72: the whole guard of the 400 answer.
NoQueryProvided(d) == DataFalsy(d) \/ ~HasQuery(d)

\* app.py line 76: data['query']; a list subscripted by a string raises.
QueryText(d) ==
    IF d.json = "object" THEN Returned(d.fields["query"]) ELSE Raised("TypeError")

\* ------------------------------------------------------------ search_articles

\* One entry of the provider's 'organic' list: it has a 'link' key or not,
\* and a link may be the empty string.
Links == {"", "a", "b"}

OrganicEntries ==
    {[hasLink |-> FALSE, link |-> ""]} \cup {[hasLink |-> TRUE, link |-> u] : u \in Links}

RECURSIVE SeqsUpTo(_, _)
SeqsUpTo(S, n) ==
    IF n = 0 THEN {<<>>}
    ELSE LET shorter == SeqsUpTo(S, n - 1)
         IN  shorter \cup {Append(s, x) : s \in {q \in shorter : Len(q) = n - 1}, x \in S}

\* What requests.request gives: a transport failure, or a response with a
\* status whose JSON body has an 'organic' list or not (or does not parse).
ProviderResponse(transport, status, json, organic) ==
    [transport |-> transport, status |-> status, json |-> json, organic |-> organic]

ProviderResponsesOver(lists) ==
    {ProviderResponse("failure", 0, "none", <<>>),
     ProviderResponse("ok", 500, "none", <<>>),
     ProviderResponse("ok", 200, "invalid", <<>>),
     ProviderResponse("ok", 200, "no_organic", <<>>)}
    \cup {ProviderResponse("ok", 200, "organic", l) : l \in lists}

ProviderResponses == ProviderResponsesOver(SeqsUpTo(OrganicEntries, MaxOrganic))

\* utils.py line 57: [result['link'] for result in data['organic'] if 'link' in result]
RECURSIVE LinksOf(_)
LinksOf(organic) ==
    IF organic = <<>> THEN <<>>
    ELSE LET rest == LinksOf(Tail(organic))
         IN  IF Head(organic).hasLink THEN <<Head(organic).link>> \o rest ELSE rest

\* utils.py lines 36-66.  With status 200 and no 'organic' key the function
\* runs off its end (line 59 is inside the `if` of line 56) and gives None.
search_articles(resp) ==
    IF resp.transport # "ok" THEN PyList(<<>>)
    ELSE IF resp.status = 200 THEN
        IF resp.json = "invalid" THEN PyList(<<>>)
        ELSE IF resp.json = "organic" THEN PyList(Take(LinksOf(resp.organic), MaxUrls))
        ELSE PyNone
    ELSE PyList(<<>>)

\* ------------------------------------------------------ fetch_article_content

\* What the GET of one URL ends in: a page with paragraph text, a page with
\* none, or any failure (bad URL, network, timeout, non-2xx status, parse).
FetchOutcomesOf(url) == IF url = "" THEN {"failure"} ELSE {"text", "no_text", "failure"}

\* utils.py lines 68-92: every exception is caught and "" returned.
fetch_article_content(outcome) ==
    IF outcome = "text" THEN Returned("text") ELSE Returned("")

\* The append without the test of line 90.
AppendArticle_Always(articles, url, r) ==
    Append(articles, [url |-> url, content |-> r.value])

\* app.py lines 88-93: the article list after one call of the fetch.
AppendArticle(articles, url, r) ==
    IF ~r.raised /\ r.value # ""
    THEN Append(articles, [url |-> url, content |-> r.value])
    ELSE articles

\* The test of line 95 left out.
NoArticles_Never(articles) == FALSE

\* app.py line 95: `if not article_content`
NoArticles(articles) == articles = <<>>

\* A loop that stops at the first URL that gave nothing.
NextUrlIndex_BreakOnFailure(i, n, r) == IF r.value = "" THEN n + 1 ELSE i + 1

\* app.py line 87: the loop moves to the next URL whatever the call gave.
NextUrlIndex(i, n, r) == i + 1

\* app.py line 106: [article["url"] for article in article_content]
SourcesOf(articles) == [i \in 1..Len(articles) |-> articles[i].url]

\* utils.py lines 94-100: one labelled block per article, in order.
concatenate_content(articles) ==
    [i \in 1..Len(articles) |-> [label |-> i, content |-> articles[i].content]]

\* ------------------------------------------------------------ generate_answer

\* utils.py lines 336 and 340.
FALLBACK == "Sorry, I couldn't generate an answer at this time."

\* The text a successful model call yields (response.content, response.text
\* or str(response)).
GENERATED == "generated answer"

\* How a step inside generate_answer leaves it: it returns a value, it goes
\* on to try another method of the client, or it lets an exception escape.
GenReturn(v) == [ctl |-> "return", value |-> v]

GenTry(m) == [ctl |-> "try", value |-> m]

GenRaise(e) == [ctl |-> "raise", value |-> e]

\* What a call of a method of the client ends in: a response, an
\* AttributeError (the client has no such method), or any other exception.
LlmOutcomes == {"ok", "AttributeError", "Exception"}

\* What constructing ChatGroq ends in.
ConstructOutcomes == {"ok", "error"}

\* generate_answer without its outer handler: the exception escapes.
OuterExcept_Propagates(e) == GenRaise(e)

\* utils.py lines 338-340: the outer `except Exception` of generate_answer.
OuterExcept(e) == GenReturn(FALLBACK)

\* utils.py lines 317-322: llm.invoke(messages).
AfterInvoke(o) ==
    IF o = "ok" THEN GenReturn(GENERATED)
    ELSE IF o = "AttributeError" THEN GenTry("complete")
    ELSE OuterExcept(o)

\* `except Exception` in place of `except AttributeError` at line 328.
AfterComplete_CatchAll(o) ==
    IF o = "ok" THEN GenReturn(GENERATED) ELSE GenTry("predict")

\* utils.py lines 323-328: llm.complete(user_message).
AfterComplete(o) ==
    IF o = "ok" THEN GenReturn(GENERATED)
    ELSE IF o = "AttributeError" THEN GenTry("predict")
    ELSE OuterExcept(o)

\* utils.py lines 329-336: llm.predict(user_message), under `except Exception`.
AfterPredict(o) ==
    IF o = "ok" THEN GenReturn(GENERATED) ELSE GenReturn(FALLBACK)

\* get_instance without the test of the key.
KeyMissing_Unchecked(key) == FALSE

\* utils.py line 28: `if not GROQ_API_KEY`.
KeyMissing(key) == ~key

\* ------------------------------------------------------------------ state

VARIABLES
    GROQ_API_KEY,      \* utils.py line 19: whether the environment sets the key
    LLM_instance,      \* LLMManager._instance: 0 is None, n > 0 the n-th client built
    constructed,       \* clients built so far (ChatGroq(...) calls that returned)
    keyErrors,         \* times get_instance raised the ValueError of line 29
    synthAttempts,     \* calls of generate_answer so far
    served,            \* requests accepted so far
    pc,                \* per worker: where its handler stands
    data,              \* per worker: the parsed body of its request
    query_text,        \* per worker: app.py line 76
    article_urls,      \* per worker: app.py line 80
    idx,               \* per worker: position of the loop of app.py line 87
    article_content,   \* per worker: app.py line 86
    combined_content,  \* per worker: app.py line 100
    llm,               \* per worker: utils.py line 108
    calls,             \* per worker: the calls its request made, in order
    response,          \* per worker: the HTTP answer of its request
    sa_resp,           \* search_articles alone: the provider's response
    sa_result,         \* search_articles alone: what it returned
    sa_done            \* search_articles alone: whether it has run

shared == <<GROQ_API_KEY, LLM_instance, constructed, keyErrors, synthAttempts>>

locals == <<data, query_text, article_urls, idx, article_content, combined_content, llm>>

alone == <<sa_resp, sa_result, sa_done>>

vars == <<shared, served, pc, locals, calls, response, alone>>

\* The worker of the sequential specification, and the two of the concurrent one.
Workers == {"w1"}

ConcWorkers == {"w1", "w2"}

\* One call, as the log keeps it.
Call(fn, arg, ret) == [fn |-> fn, arg |-> arg, ret |-> ret]

\* An HTTP answer (app.py lines 74, 83, 97, 104-107, 111).
Answer(status, error, answer, sources) ==
    [status |-> status, error |-> error, answer |-> answer, sources |-> sources]

NoAnswer == Answer(0, "", "", <<>>)

\* Everything a handler can be given from outside.
FullEnv ==
    [bodies |-> Bodies, responses |-> ProviderResponses,
     fetches |-> {"text", "no_text", "failure"},
     constructs |-> ConstructOutcomes, llms |-> LlmOutcomes]

\* A small environment for the concurrent specification: well-formed requests
\* whose search finds one article or none.
SmallEnv ==
    [bodies |-> {JsonObject([k \in {"query"} |-> "q"])},
     responses |-> ProviderResponsesOver({<<>>, <<[hasLink |-> TRUE, link |-> "a"]>>}),
     fetches |-> {"text", "failure"},
     constructs |-> ConstructOutcomes, llms |-> LlmOutcomes]

InitOver(W, R) ==
    /\ GROQ_API_KEY \in BOOLEAN
    /\ LLM_instance = 0
    /\ constructed = 0
    /\ keyErrors = 0
    /\ synthAttempts = 0
    /\ served = 0
    /\ pc = [t \in W |-> "idle"]
    /\ data = [t \in W |-> JsonNull]
    /\ query_text = [t \in W |-> ""]
    /\ article_urls = [t \in W |-> PyList(<<>>)]
    /\ idx = [t \in W |-> 0]
    /\ article_content = [t \in W |-> <<>>]
    /\ combined_content = [t \in W |-> <<>>]
    /\ llm = [t \in W |-> 0]
    /\ calls = [t \in W |-> <<>>]
    /\ response = [t \in W |-> NoAnswer]
    /\ sa_resp \in R
    /\ sa_result = PyList(<<>>)
    /\ sa_done = FALSE

\* `return jsonify(...)`: the handler ends with this answer.
Respond(t, a) ==
    /\ response' = [response EXCEPT ![t] = a]
    /\ pc' = [pc EXCEPT ![t] = "done"]

\* app.py lines 101-111, from the point generate_answer is left: its value
\* goes into the 200 answer, an exception it lets out into the 500 answer.
LeaveGenerate(t, g) ==
    IF g.ctl = "try"
    THEN /\ pc' = [pc EXCEPT ![t] = g.value]
         /\ UNCHANGED response
    ELSE IF g.ctl = "return"
    THEN Respond(t, Answer(200, "", g.value, SourcesOf(article_content[t])))
    ELSE Respond(t, Answer(500, "Internal server error", "", <<>>))

\* app.py lines 69-77: a request arrives; the body is parsed and validated.
Query_Receive(t, env) ==
    /\ pc[t] \in {"idle", "done"}
    /\ served < MaxRequests
    /\ served' = served + 1
    /\ \E body \in env.bodies :
        /\ data' = [data EXCEPT ![t] = body]
        /\ article_urls' = [article_urls EXCEPT ![t] = PyList(<<>>)]
        /\ idx' = [idx EXCEPT ![t] = 0]
        /\ article_content' = [article_content EXCEPT ![t] = <<>>]
        /\ combined_content' = [combined_content EXCEPT ![t] = <<>>]
        /\ llm' = [llm EXCEPT ![t] = 0]
        /\ calls' = [calls EXCEPT ![t] = <<>>]
        /\ IF NoQueryProvided(body)
           THEN /\ Respond(t, Answer(400, "No query provided", "", <<>>))
                /\ query_text' = [query_text EXCEPT ![t] = ""]
           ELSE LET q == QueryText(body)
                IN  IF q.raised
                    THEN /\ Respond(t, Answer(500, "Internal server error", "", <<>>))
                         /\ query_text' = [query_text EXCEPT ![t] = ""]
                    ELSE /\ pc' = [pc EXCEPT ![t] = "search"]
                         /\ response' = [response EXCEPT ![t] = NoAnswer]
                         /\ query_text' = [query_text EXCEPT ![t] = q.value]
    /\ UNCHANGED <<shared, alone>>

\* app.py lines 80-86: the search call and the test of its result.
Query_Search(t, env) ==
    /\ pc[t] = "search"
    /\ \E resp \in env.responses :
        LET urls == search_articles(resp)
        IN  /\ article_urls' = [article_urls EXCEPT ![t] = urls]
            /\ calls' = [calls EXCEPT ![t] =
                            Append(@, Call("search_articles", query_text[t], ""))]
            /\ IF ~PyTruthy(urls)
               THEN /\ Respond(t, Answer(404, "No articles found", "", <<>>))
                    /\ UNCHANGED idx
               ELSE /\ pc' = [pc EXCEPT ![t] = "fetch"]
                    /\ idx' = [idx EXCEPT ![t] = 1]
                    /\ UNCHANGED response
    /\ UNCHANGED <<shared, served, data, query_text, article_content,
                   combined_content, llm, alone>>

\* app.py lines 87-101: one turn of the loop; after the last URL, the test of
\* line 95, the concatenation, and the entry into generate_answer.
Query_Fetch(t, env) ==
    /\ pc[t] = "fetch"
    /\ idx[t] <= Len(article_urls[t].items)
    /\ LET url == article_urls[t].items[idx[t]]
           n == Len(article_urls[t].items)
       IN  \E o \in FetchOutcomesOf(url) \cap env.fetches :
            LET r == fetch_article_content(o)
                articles == AppendArticle(article_content[t], url, r)
                next == NextUrlIndex(idx[t], n, r)
                fetched == Append(calls[t], Call("fetch_article_content", url, r.value))
            IN  /\ article_content' = [article_content EXCEPT ![t] = articles]
                /\ idx' = [idx EXCEPT ![t] = next]
                /\ IF next <= n
                   THEN /\ calls' = [calls EXCEPT ![t] = fetched]
                        /\ UNCHANGED <<pc, response, combined_content, synthAttempts>>
                   ELSE IF NoArticles(articles)
                   THEN /\ calls' = [calls EXCEPT ![t] = fetched]
                        /\ Respond(t, Answer(404, "Could not fetch any article content",
                                             "", <<>>))
                        /\ UNCHANGED <<combined_content, synthAttempts>>
                   ELSE /\ combined_content' = [combined_content EXCEPT ![t] =
                                                    concatenate_content(articles)]
                        /\ calls' = [calls EXCEPT ![t] =
                                        fetched \o <<Call("concatenate_content", "", ""),
                                                     Call("generate_answer", "", "")>>]
                        /\ synthAttempts' = synthAttempts + 1
                        /\ pc' = [pc EXCEPT ![t] = "get_instance"]
                        /\ UNCHANGED response
    /\ UNCHANGED <<GROQ_API_KEY, LLM_instance, constructed, keyErrors, served,
                   data, query_text, article_urls, llm, alone>>

\* utils.py lines 27-29: the test of _instance and of the key.
GetInstance_Check(t) ==
    /\ pc[t] = "get_instance"
    /\ IF LLM_instance = 0
       THEN IF KeyMissing(GROQ_API_KEY)
            THEN /\ keyErrors' = keyErrors + 1
                 /\ calls' = [calls EXCEPT ![t] =
                                 Append(@, Call("get_instance", "", "ValueError"))]
                 /\ LeaveGenerate(t, OuterExcept("ValueError"))
            ELSE /\ pc' = [pc EXCEPT ![t] = "construct"]
                 /\ UNCHANGED <<keyErrors, calls, response>>
       ELSE /\ pc' = [pc EXCEPT ![t] = "return_instance"]
            /\ UNCHANGED <<keyErrors, calls, response>>
    /\ UNCHANGED <<GROQ_API_KEY, LLM_instance, constructed, synthAttempts, served,
                   locals, alone>>

\* utils.py lines 30-33: ChatGroq(...) is built and stored in _instance.
GetInstance_Construct(t, env) ==
    /\ pc[t] = "construct"
    /\ \E o \in env.constructs :
        IF o = "ok"
        THEN /\ constructed' = constructed + 1
             /\ LLM_instance' = constructed + 1
             /\ pc' = [pc EXCEPT ![t] = "return_instance"]
             /\ UNCHANGED <<calls, response>>
        ELSE /\ calls' = [calls EXCEPT ![t] =
                             Append(@, Call("get_instance", "", "ConstructError"))]
             /\ LeaveGenerate(t, OuterExcept("ConstructError"))
             /\ UNCHANGED <<constructed, LLM_instance>>
    /\ UNCHANGED <<GROQ_API_KEY, keyErrors, synthAttempts, served, locals, alone>>

\* utils.py line 34 and line 108: `return cls._instance` reads the attribute.
GetInstance_Return(t) ==
    /\ pc[t] = "return_instance"
    /\ llm' = [llm EXCEPT ![t] = LLM_instance]
    /\ calls' = [calls EXCEPT ![t] = Append(@, Call("get_instance", "", "ok"))]
    /\ pc' = [pc EXCEPT ![t] = "invoke"]
    /\ UNCHANGED <<shared, served, data, query_text, article_urls, idx,
                   article_content, combined_content, response, alone>>

\* utils.py lines 317-322: the call of llm.invoke and what follows its end.
Generate_Invoke(t, env) ==
    /\ pc[t] = "invoke"
    /\ \E o \in env.llms :
        /\ calls' = [calls EXCEPT ![t] = Append(@, Call("invoke", "", o))]
        /\ LeaveGenerate(t, AfterInvoke(o))
    /\ UNCHANGED <<shared, served, locals, alone>>

\* utils.py lines 323-328: the call of llm.complete and what follows its end.
Generate_Complete(t, env) ==
    /\ pc[t] = "complete"
    /\ \E o \in env.llms :
        /\ calls' = [calls EXCEPT ![t] = Append(@, Call("complete", "", o))]
        /\ LeaveGenerate(t, AfterComplete(o))
    /\ UNCHANGED <<shared, served, locals, alone>>

\* utils.py lines 329-336: the call of llm.predict and what follows its end.
Generate_Predict(t, env) ==
    /\ pc[t] = "predict"
    /\ \E o \in env.llms :
        /\ calls' = [calls EXCEPT ![t] = Append(@, Call("predict", "", o))]
        /\ LeaveGenerate(t, AfterPredict(o))
    /\ UNCHANGED <<shared, served, locals, alone>>

\* One step of one worker.
Step(t, env) ==
    \/ Query_Receive(t, env)
    \/ Query_Search(t, env)
    \/ Query_Fetch(t, env)
    \/ GetInstance_Check(t)
    \/ GetInstance_Construct(t, env)
    \/ GetInstance_Return(t)
    \/ Generate_Invoke(t, env)
    \/ Generate_Complete(t, env)
    \/ Generate_Predict(t, env)

\* Requests handled one after another by one worker.
NoResponses == {ProviderResponse("failure", 0, "none", <<>>)}

Init == InitOver(Workers, NoResponses)

Next == \E t \in Workers : Step(t, FullEnv)

Spec == Init /\ [][Next]_vars

\* Requests handled by two worker threads at once (app.run of app.py line 114
\* serves each request on its own thread).
InitConc == InitOver(ConcWorkers, NoResponses)

NextConc == \E t \in ConcWorkers : Step(t, SmallEnv)

SpecConc == InitConc /\ [][NextConc]_vars

\* search_articles alone, on every response of the provider.
InitSearch == InitOver(Workers, ProviderResponses)

\* utils.py lines 36-66: one call of search_articles.
SearchCall ==
    /\ ~sa_done
    /\ sa_result' = search_articles(sa_resp)
    /\ sa_done' = TRUE
    /\ UNCHANGED <<shared, served, pc, locals, calls, response, sa_resp>>

SpecSearch == InitSearch /\ [][SearchCall]_vars

\* ------------------------------------------------------------ what is checked

IsFetch(c) == c.fn = "fetch_article_content"

IsMethod(c) == c.fn \in {"invoke", "complete", "predict"}

IsLater(c) == c.fn \in {"concatenate_content", "generate_answer"}

\* The calls of fetch_article_content a request has made so far, in order.
FetchCalls(t) == SelectSeq(calls[t], IsFetch)

\* The calls of methods of the client a request has made so far, in order.
MethodCalls(t) == SelectSeq(calls[t], IsMethod)

Called(t, fn) == \E i \in 1..Len(calls[t]) : calls[t][i].fn = fn

LastCall(t) == calls[t][Len(calls[t])]

\* The search gave at least one URL.
HasUrls(v) == v.type = "list" /\ v.items # <<>>

\* The URLs of urls, from position i on, whose fetch returned text.
RECURSIVE Successful(_, _, _)
Successful(urls, fc, i) ==
    IF i > Len(urls) THEN <<>>
    ELSE (IF fc[i].ret # "" THEN <<urls[i]>> ELSE <<>>) \o Successful(urls, fc, i + 1)

\* A body with no 'query' key, or whose 'query' is the empty string.
LacksQuery(d) ==
    \/ d.json = "null"
    \/ /\ d.json = "object"
       /\ IF "query" \in DOMAIN d.fields THEN d.fields["query"] = "" ELSE TRUE

\* C1: a request whose body lacks the 'query' key, or whose 'query' is the
\* empty string, is answered 400 "No query provided" and has made no network
\* call.
C1_EmptyQueryRejected ==
    \A t \in DOMAIN pc :
        (pc[t] # "idle" /\ LacksQuery(data[t])) =>
            /\ pc[t] = "done"
            /\ response[t] = Answer(400, "No query provided", "", <<>>)
            /\ calls[t] = <<>>

\* C2: in a 200 answer, 'sources' is exactly the search-result URLs whose
\* fetch returned non-empty content, in search-result order.
C2_SourcesAreSuccessfulFetches ==
    \A t \in DOMAIN pc :
        (pc[t] = "done" /\ response[t].status = 200) =>
            /\ Len(FetchCalls(t)) = Len(article_urls[t].items)
            /\ response[t].sources =
                   Successful(article_urls[t].items, FetchCalls(t), 1)

\* A 200 answer to a request whose three URLs gave text, nothing, text.
C2_Witness ==
    \E t \in DOMAIN pc :
        /\ pc[t] = "done"
        /\ response[t].status = 200
        /\ article_urls[t].items = <<"a", "b", "a">>
        /\ FetchCalls(t)[2].ret = ""
        /\ response[t].sources = <<"a", "a">>

\* C3: when search_articles yields no URLs, the request ends with 404
\* "No articles found" and the search is the only call it made.
C3_NoUrlsIs404 ==
    \A t \in DOMAIN pc :
        (Called(t, "search_articles") /\ ~HasUrls(article_urls[t])) =>
            /\ pc[t] = "done"
            /\ response[t] = Answer(404, "No articles found", "", <<>>)
            /\ Len(calls[t]) = 1

\* A request whose search returned the empty list.
C3_Witness ==
    \E t \in DOMAIN pc :
        /\ Called(t, "search_articles")
        /\ article_urls[t] = PyList(<<>>)
        /\ response[t].status = 404

\* Every URL of the request has been fetched and none gave text.
AllFetchesEmpty(t) ==
    /\ HasUrls(article_urls[t])
    /\ Len(FetchCalls(t)) = Len(article_urls[t].items)
    /\ \A i \in 1..Len(FetchCalls(t)) : FetchCalls(t)[i].ret = ""

\* C4: when the search returned URLs and every fetch gave empty content, the
\* request ends with 404 "Could not fetch any article content" and neither
\* concatenate_content nor generate_answer was called.
C4_NoContentIs404 ==
    \A t \in DOMAIN pc :
        AllFetchesEmpty(t) =>
            /\ pc[t] = "done"
            /\ response[t] = Answer(404, "Could not fetch any article content", "", <<>>)
            /\ SelectSeq(calls[t], IsLater) = <<>>
            /\ MethodCalls(t) = <<>>

\* Three URLs, three empty fetches.
C4_Witness ==
    \E t \in DOMAIN pc :
        /\ AllFetchesEmpty(t)
        /\ Len(article_urls[t].items) = 3
        /\ article_urls[t].items[1] = "a"

\* C5: fetch_article_content is called once for each URL of the search
\* result, in order, whatever the earlier calls gave; a failed fetch skips
\* no later URL and never ends the request with an error of its own.
C5_EveryUrlFetchedOnce ==
    \A t \in DOMAIN pc :
        LET fc == FetchCalls(t)
            urls == article_urls[t].items
        IN  /\ Len(fc) <= Len(urls)
            /\ \A i \in 1..Len(fc) : fc[i].arg = urls[i]
            /\ pc[t] = "fetch" => (Len(fc) = idx[t] - 1 /\ Len(fc) < Len(urls))
            /\ (pc[t] \notin {"idle", "search", "fetch"} /\ HasUrls(article_urls[t])) =>
                   (Len(fc) = Len(urls) /\ response[t].status # 500)

\* Three URLs: the first fetch failed, the second and third were still made.
C5_Witness ==
    \E t \in DOMAIN pc :
        /\ pc[t] = "done"
        /\ Len(article_urls[t].items) = 3
        /\ Len(FetchCalls(t)) = 3
        /\ FetchCalls(t)[1].ret = ""
        /\ FetchCalls(t)[2].ret = ""
        /\ FetchCalls(t)[3].ret = "text"

\* C6: generate_answer never raises: a request that entered it is never
\* answered 500, and when the last thing it did failed, its answer is the
\* fallback string in a 200 answer.
C6_GenerateNeverRaises ==
    \A t \in DOMAIN pc :
        Called(t, "generate_answer") =>
            /\ response[t].status \in {0, 200}
            /\ pc[t] = "done" =>
                   /\ response[t].status = 200
                   /\ LastCall(t).ret # "ok" => response[t].answer = FALLBACK
                   /\ LastCall(t).ret = "ok" => response[t].answer = GENERATED

\* llm.complete raised an exception that is no AttributeError.
C6_Witness ==
    \E t \in DOMAIN pc :
        /\ pc[t] = "done"
        /\ Called(t, "generate_answer")
        /\ LastCall(t) = Call("complete", "", "Exception")
        /\ response[t].status = 200
        /\ response[t].answer = FALLBACK

\* C7: the client is constructed at most once per process and every caller
\* of get_instance receives the same instance.
C7_OneClient ==
    /\ constructed <= 1
    /\ \A t, u \in DOMAIN pc : (llm[t] # 0 /\ llm[u] # 0) => llm[t] = llm[u]

\* A request whose generate_answer ended in the ValueError of get_instance.
KeyErrorEnded(t) ==
    /\ pc[t] = "done"
    /\ Called(t, "generate_answer")
    /\ LastCall(t) = Call("get_instance", "", "ValueError")

\* C8, as stated: with no GROQ_API_KEY the configuration error is raised at
\* most once over all requests, and it is not absorbed into a normal answer.
C8_RaisedOnceAndFatal ==
    ~GROQ_API_KEY =>
        /\ keyErrors <= 1
        /\ \A t \in DOMAIN pc : KeyErrorEnded(t) => response[t].status # 200

\* C8, amended: with no GROQ_API_KEY no client is ever built, get_instance
\* raises the configuration error at every synthesis attempt (and only
\* there), and generate_answer absorbs each one: the request is answered 200
\* with the fallback string.
C8_RaisedEachAttemptAndAbsorbed ==
    ~GROQ_API_KEY =>
        /\ LLM_instance = 0
        /\ constructed = 0
        /\ keyErrors + Cardinality({t \in DOMAIN pc : pc[t] = "get_instance"})
               = synthAttempts
        /\ \A t \in DOMAIN pc :
            (pc[t] = "done" /\ Called(t, "generate_answer")) =>
                /\ KeyErrorEnded(t)
                /\ response[t] =
                       Answer(200, "", FALLBACK, SourcesOf(article_content[t]))

\* The second request in a row to end in the configuration error.
C8_Witness ==
    /\ ~GROQ_API_KEY
    /\ keyErrors = 2
    /\ \E t \in DOMAIN pc : KeyErrorEnded(t) /\ response[t].answer = FALLBACK

\* The links of the entries that carry a link, in the provider's order
\* ("populated" read as: the entry has the link field).
RECURSIVE PopulatedLinks(_)
PopulatedLinks(organic) ==
    IF organic = <<>> THEN <<>>
    ELSE LET rest == PopulatedLinks(Tail(organic))
             e == Head(organic)
         IN  IF e.hasLink THEN <<e.link>> \o rest ELSE rest

\* C9: search_articles returns a sequence of at most 3 URLs: on status 200
\* the first 3 links of the 'organic' entries that carry one, in the
\* provider's order (empty when there are none), and the empty sequence on a
\* non-200 status or a transport failure; never a value that is no sequence.
C9_SearchResult ==
    sa_done =>
        /\ sa_result.type = "list"
        /\ Len(sa_result.items) <= 3
        /\ sa_result.items =
               IF sa_resp.transport = "ok" /\ sa_resp.status = 200
               THEN Take(PopulatedLinks(sa_resp.organic), 3)
               ELSE <<>>

\* C10: the methods are tried in the order invoke, complete, predict; a
\* method is tried only after the one before it raised AttributeError; a
\* success or any other exception ends the chain at once, the latter with
\* the fallback string.
C10_FallbackChain ==
    \A t \in DOMAIN pc :
        LET mc == MethodCalls(t)
            n == Len(mc)
        IN  /\ n <= 3
            /\ \A i \in 1..n : mc[i].fn = <<"invoke", "complete", "predict">>[i]
            /\ \A i \in 1..(n - 1) : mc[i].ret = "AttributeError"
            /\ n > 0 =>
                /\ mc[n].ret = "ok" =>
                       (pc[t] = "done" /\ response[t].answer = GENERATED)
                /\ mc[n].ret = "Exception" =>
                       (pc[t] = "done" /\ response[t].answer = FALLBACK)
                /\ (mc[n].ret = "AttributeError" /\ n < 3) =>
                       pc[t] = <<"complete", "predict">>[n]
                /\ (mc[n].ret = "AttributeError" /\ n = 3) =>
                       (pc[t] = "done" /\ response[t].answer = FALLBACK)

\* invoke raised AttributeError, then complete raised another exception:
\* predict was not tried.
C10_Witness ==
    \E t \in DOMAIN pc :
        /\ Len(MethodCalls(t)) = 2
        /\ MethodCalls(t)[1] = Call("invoke", "", "AttributeError")
        /\ MethodCalls(t)[2] = Call("complete", "", "Exception")
        /\ pc[t] = "done"
        /\ response[t].answer = FALLBACK

====
